---- MODULE Spec2Model ----
(***************************************************************************)
(* Transcript parsing and normalisation recipes of lhotse:                 *)
(*   lhotse/recipes/callhome_gulf.py, callhome_iraqi.py,                   *)
(*   callhome_levant.py and qasr.py.                                       *)
(*                                                                         *)
(* A text is a sequence of characters.  An ASCII character is the string   *)
(* holding it; any other character is the string "uXXXX" of its code point *)
(* (the grave accent is "u0060").                                          *)
(***************************************************************************)
EXTENDS Integers, Sequences, FiniteSets, TLC

\* ------------------------------------------------------------------------
\* Characters
\* ------------------------------------------------------------------------

UpperLetters == <<"A", "B", "C", "D", "E", "F", "G", "H", "I", "J", "K", "L", "M",
                  "N", "O", "P", "Q", "R", "S", "T", "U", "V", "W", "X", "Y", "Z">>

LowerLetters == <<"a", "b", "c", "d", "e", "f", "g", "h", "i", "j", "k", "l", "m",
                  "n", "o", "p", "q", "r", "s", "t", "u", "v", "w", "x", "y", "z">>

AsciiLower == {LowerLetters[i] : i \in 1..26}

AsciiUpper == {UpperLetters[i] : i \in 1..26}

AsciiDigits == {"0", "1", "2", "3", "4", "5", "6", "7", "8", "9"}

\* Arabic-Indic digits U+0660..U+0669, in the order of their values.
EasternDigits == <<"u0660", "u0661", "u0662", "u0663", "u0664",
                   "u0665", "u0666", "u0667", "u0668", "u0669">>

WesternDigits == <<"0", "1", "2", "3", "4", "5", "6", "7", "8", "9">>

\* The characters the regex class \s, str.strip() and str.split() take as
\* white space (a line of splitlines() holds no line break).
Whitespace == {" ", "\t"}

\* The letters of U+0600..U+06FF that the transcripts and word lists use.
ArabicLetters == {"u0623", "u0627", "u0628", "u0629", "u062A", "u062C", "u062D",
                  "u062E", "u062F", "u0633", "u0634", "u0635", "u0636", "u0637",
                  "u0639", "u0641", "u0643", "u0644", "u0645", "u0646", "u0647",
                  "u0648", "u064A", "u06A4"}

\* [U+064B-U+0652 U+06D4 U+0670 U+0674 U+06D5-U+06ED]: the ends of each range.
Diacritics == {"u064B", "u0651", "u0652", "u06D4", "u0670", "u0674", "u06D5", "u06ED"}

\* set(arabic_punctuations + string.punctuation)
Punctuations == {"!", "#", "$", "%", "&", "'", "(", ")", "*", "+", ",", "-", ".",
                 "/", ":", ";", "<", "=", ">", "?", "@", "[", "\"", "\\", "]", "^",
                 "_", "u0060", "{", "|", "}", "~",
                 "u00A6", "u00D7", "u00F7", "u060C", "u061B", "u061F", "u0640",
                 "u2013", "u201C", "u201D", "u2026", "uFD3E", "uFD3F"}

\* The code points of the block U+0600..U+06FF that the model knows.
ArabicBlock == ArabicLetters \cup Diacritics
                 \cup {"u060C", "u061B", "u061F", "u0640", "u066A"}
                 \cup {EasternDigits[i] : i \in 1..10}

\* \d of a str pattern: the decimal digits of any script.
UnicodeDigits == AsciiDigits \cup {EasternDigits[i] : i \in 1..10}

\* str.lower() of one character.  U+0130 lowers to "i" and U+0307.
LowerChar(c) ==
    IF c \in AsciiUpper
    THEN <<LowerLetters[CHOOSE i \in 1..26 : UpperLetters[i] = c]>>
    ELSE IF c = "u0130" THEN <<"i", "u0307">> ELSE <<c>>

RECURSIVE lower(_)
lower(text) ==
    IF text = <<>> THEN <<>> ELSE LowerChar(Head(text)) \o lower(Tail(text))

\* ------------------------------------------------------------------------
\* str and re primitives
\* ------------------------------------------------------------------------

OccursAt(text, i, word) ==
    /\ i + Len(word) - 1 <= Len(text)
    /\ SubSeq(text, i, i + Len(word) - 1) = word

\* word in text
Contains(text, word) == \E i \in 1..Len(text) : OccursAt(text, i, word)

RECURSIVE ReplaceFrom(_, _, _, _)
ReplaceFrom(text, i, old, new) ==
    IF i > Len(text) THEN <<>>
    ELSE IF OccursAt(text, i, old)
         THEN new \o ReplaceFrom(text, i + Len(old), old, new)
         ELSE <<text[i]>> \o ReplaceFrom(text, i + 1, old, new)

\* text.replace(old, new), old not empty: the occurrences from left to
\* right, not overlapping.
replace(text, old, new) == ReplaceFrom(text, 1, old, new)

\* text.strip()
strip(text) ==
    LET inner == {i \in 1..Len(text) : text[i] \notin Whitespace}
        first == CHOOSE i \in inner : \A k \in inner : i <= k
        last == CHOOSE i \in inner : \A k \in inner : k <= i
    IN  IF inner = {} THEN <<>> ELSE SubSeq(text, first, last)

\* The last index of the run of white space that starts at i.
RECURSIVE RunEnd(_, _)
RunEnd(text, i) ==
    IF i + 1 <= Len(text) /\ text[i + 1] \in Whitespace THEN RunEnd(text, i + 1) ELSE i

\* sub(r"\s+", " ", text)
RECURSIVE CollapseFrom(_, _)
CollapseFrom(text, i) ==
    IF i > Len(text) THEN <<>>
    ELSE IF text[i] \in Whitespace
         THEN <<" ">> \o CollapseFrom(text, RunEnd(text, i) + 1)
         ELSE <<text[i]>> \o CollapseFrom(text, i + 1)

\* sub(r"\s+\.\s+", ".", text): leftmost, greedy, not overlapping.
RECURSIVE DotFrom(_, _)
DotFrom(text, i) ==
    IF i > Len(text) THEN <<>>
    ELSE LET j == RunEnd(text, i) IN
         IF /\ text[i] \in Whitespace
            /\ j + 2 <= Len(text)
            /\ text[j + 1] = "."
            /\ text[j + 2] \in Whitespace
         THEN <<".">> \o DotFrom(text, RunEnd(text, j + 2) + 1)
         ELSE <<text[i]>> \o DotFrom(text, i + 1)

\* text.split(): the maximal runs of characters that are not white space.
RECURSIVE SplitFrom(_, _, _)
SplitFrom(text, i, word) ==
    IF i > Len(text) THEN (IF word = <<>> THEN <<>> ELSE <<word>>)
    ELSE IF text[i] \in Whitespace
         THEN (IF word = <<>> THEN <<>> ELSE <<word>>) \o SplitFrom(text, i + 1, <<>>)
         ELSE SplitFrom(text, i + 1, Append(word, text[i]))

str_split(text) == SplitFrom(text, 1, <<>>)

\* sep.join(words)
RECURSIVE join(_, _)
join(sep, words) ==
    IF words = <<>> THEN <<>>
    ELSE IF Len(words) = 1 THEN words[1]
         ELSE words[1] \o sep \o join(sep, Tail(words))

\* ------------------------------------------------------------------------
\* Text cleaning
\* ------------------------------------------------------------------------

words_to_remove_gulf == <<
    <<"(", "u0636", "u062C", "u0629", ")">>,
    <<"(", "u0636", "u062C", "u0629", "\\", ")">>,
    <<"(", "u062A", "u0646", "u0641", "u0633", ")">>,
    <<"(", "(", ")", ")">>,
    <<"(", "u0636", "u062D", "u0643", ")">>,
    <<"(", "u0627", "u0644", "u0634", "u0641", "u0629", ")">>,
    <<"(", "-", "a", "p", " ", "P", "r", "o", "n", "o", "u", "n", "c", "e", "d", ")">>,
    <<"(", "l", "a", "m", " ", "P", "r", "o", "n", "o", "u", "n", "c", "e", "d", ")">>,
    <<"(", "F", "O", "R", ")">>,
    <<"(", "u0633", "u0639", "u0627", "u0644", ")">>,
    <<"(", "u0639", "u0637", "u0633", ")">>,
    <<"(", "E", "N", "G", "L", "I", "S", "H">>,
    <<"(", "F", "R", "E", "N", "C", "H">>,
    <<"(", "K", "U", "R", "D", "I", "S", "H">>,
    <<"(", "P", "A", "K", "I", "S", "T", "A", "N", "I">> >>

words_to_remove_levant == <<
    <<"%", "u0636", "u062C", "u0651", "u0629">>,
    <<"%", "u0623", "u0635", "u0648", "u0627", "u062A">>,
    <<"%", "u0623", "u062C", "u0646", "u0628", "u064A">>,
    <<"(", "(", ")", ")">>,
    <<"%", "u062A", "u0646", "u0641", "u0651", "u0633">>,
    <<"%", "u0645", "u0647", "u0645">>,
    <<"%", "u062A", "u062F", "u0627", "u062E", "u0644">>,
    <<"%", "u062A", "u062F", "u0627", "u062E", "u0644", "\\">>,
    <<"%", "u0633", "u0639", "u0627", "u0644">>,
    <<"%", "u0635", "u0645", "u062A">>,
    <<"%", "u0645", "u062A", "u0643", "u0644", "u0645", "u062C", "u062F", "u064A", "u062F">>,
    <<"%", "u0645", "u062A", "u0643", "u0644", "u0645", "u062C", "u062F", "u064A", "u062F", "\\">>,
    <<"%", "u0636", "u062D", "u0643">> >>

\* The word list of a corpus (the Iraqi list is the Gulf list).
words_to_remove(corpus) ==
    IF corpus = "levant" THEN words_to_remove_levant ELSE words_to_remove_gulf

RECURSIVE RemoveWords(_, _)
RemoveWords(text, words) ==
    IF words = <<>> THEN text
    ELSE RemoveWords(IF Contains(text, Head(words))
                     THEN replace(text, Head(words), <<>>)
                     ELSE text,
                     Tail(words))

remove_special_words(corpus, text) == RemoveWords(text, words_to_remove(corpus))

remove_diacritics(text) ==
    LET NotDiacritic(c) == c \notin Diacritics
    IN  SelectSeq(text, NotDiacritic)

\* A punctuation character is replaced by nothing in the Iraqi recipe and
\* by one space in the others.
RECURSIVE remove_punctuations(_, _)
remove_punctuations(corpus, text) ==
    LET fill == IF corpus = "iraqi" THEN <<>> ELSE <<" ">>
    IN  IF text = <<>> THEN <<>>
        ELSE (IF Head(text) \in Punctuations THEN fill ELSE <<Head(text)>>)
             \o remove_punctuations(corpus, Tail(text))

\* [^U+0600-U+06FF \s \d a-z] is what the pass deletes.
remove_non_alphanumeric(text) ==
    LET AlphaNumeric(c) ==
            c \in ArabicBlock \cup Whitespace \cup UnicodeDigits \cup AsciiLower
    IN  SelectSeq(lower(text), AlphaNumeric)

remove_extra_space(text) == DotFrom(CollapseFrom(text, 1), 1)

\* str.translate of east_to_west_num, one character.
EastToWestChar(c) ==
    IF \E i \in 1..10 : EasternDigits[i] = c
    THEN WesternDigits[CHOOSE i \in 1..10 : EasternDigits[i] = c]
    ELSE CASE c = "u066A" -> "%"
           [] c = "_" -> " "
           [] c = "u06A4" -> "u0641"
           [] c = "|" -> " "
           [] OTHER -> c

east_to_west_num(text) == [i \in 1..Len(text) |-> EastToWestChar(text[i])]

\* len(word) > 1 or word.isnumeric()
remove_single_char_word(text) ==
    LET KeepWord(word) ==
            Len(word) > 1 \/ (Len(word) = 1 /\ word[1] \in UnicodeDigits)
    IN  join(<<" ">>, SelectSeq(str_split(text), KeepWord))

\* cleaning() of callhome_gulf.py, callhome_iraqi.py and callhome_levant.py
cleaning_callhome(corpus, text) ==
    strip(remove_extra_space(remove_non_alphanumeric(
        remove_punctuations(corpus, remove_diacritics(
            remove_special_words(corpus, text))))))

\* cleaning() of qasr.py with the words of one character removed before
\* the characters that are neither letters nor digits.
cleaning_single_char_first(text) ==
    remove_extra_space(remove_non_alphanumeric(remove_single_char_word(
        remove_diacritics(east_to_west_num(remove_punctuations("qasr", text))))))

\* cleaning() of qasr.py
cleaning_qasr(text) ==
    remove_extra_space(remove_single_char_word(remove_non_alphanumeric(
        remove_diacritics(east_to_west_num(remove_punctuations("qasr", text))))))

cleaning(corpus, text) ==
    IF corpus = "qasr" THEN cleaning_qasr(text) ELSE cleaning_callhome(corpus, text)

Corpora == {"gulf", "iraqi", "levant", "qasr"}

\* ------------------------------------------------------------------------
\* Numbers, timestamps and formatting
\* ------------------------------------------------------------------------

\* text.split(sep) for a separator of one character: every field, the
\* empty ones too.
RECURSIVE SplitOnFrom(_, _, _, _)
SplitOnFrom(text, sep, i, field) ==
    IF i > Len(text) THEN <<field>>
    ELSE IF text[i] = sep
         THEN <<field>> \o SplitOnFrom(text, sep, i + 1, <<>>)
         ELSE SplitOnFrom(text, sep, i + 1, Append(field, text[i]))

SplitOn(text, sep) == SplitOnFrom(text, sep, 1, <<>>)

\* The index of the first character at or after i that is (space = TRUE)
\* or is not (space = FALSE) white space; Len(text) + 1 when there is none.
RECURSIVE Scan(_, _, _)
Scan(text, i, space) ==
    IF i > Len(text) \/ ((text[i] \in Whitespace) = space) THEN i
    ELSE Scan(text, i + 1, space)

\* text.split(maxsplit = n): at most n splits at runs of white space; what
\* is left after the n-th split is the last field, as it stands.
RECURSIVE SplitMax(_, _)
SplitMax(text, n) ==
    LET b == Scan(text, 1, FALSE)
        e == Scan(text, b, TRUE)
        rest == SubSeq(text, Scan(text, e, FALSE), Len(text))
    IN  IF b > Len(text) THEN <<>>
        ELSE IF n = 0 THEN <<SubSeq(text, b, Len(text))>>
        ELSE <<SubSeq(text, b, e - 1)>> \o SplitMax(rest, n - 1)

\* sub(r"[\[\]]", "", time), spk.replace(":", ""), sub(r"[0-9]", "", spk):
\* the text without the characters of a set.
Without(text, chars) ==
    LET Kept(c) == c \notin chars
    IN  SelectSeq(text, Kept)

\* The value of a decimal digit.
DigitValue(c) ==
    IF c \in AsciiDigits
    THEN (CHOOSE i \in 1..10 : WesternDigits[i] = c) - 1
    ELSE (CHOOSE i \in 1..10 : EasternDigits[i] = c) - 1

RECURSIVE DigitsValue(_)
DigitsValue(digits) ==
    IF digits = <<>> THEN 0
    ELSE 10 * DigitsValue(SubSeq(digits, 1, Len(digits) - 1))
         + DigitValue(digits[Len(digits)])

RECURSIVE Pow10(_)
Pow10(n) == IF n = 0 THEN 1 ELSE 10 * Pow10(n - 1)

AllDigits(t) == \A i \in 1..Len(t) : t[i] \in UnicodeDigits

\* The numerals Decimal(), float() and int() are given here: an optional
\* sign, then digits, with at most one point among them for Decimal() and
\* float(), or the letters of "nan" in either case for Decimal() and float().
Unsigned(t) == IF t # <<>> /\ t[1] \in {"+", "-"} THEN Tail(t) ELSE t

IsInteger(t) == Unsigned(t) # <<>> /\ AllDigits(Unsigned(t))

IsNaN(t) == lower(Unsigned(t)) = <<"n", "a", "n">>

IsDecimal(t) ==
    LET parts == SplitOn(Unsigned(t), ".")
    IN  \/ IsNaN(t)
        \/ /\ Len(parts) \in {1, 2}
           /\ \A k \in 1..Len(parts) : AllDigits(parts[k])
           /\ \E k \in 1..Len(parts) : parts[k] # <<>>

\* The number that is not a number, and the number coef * 10^(-exp).
NaN == [coef |-> 0, exp |-> 0, nan |-> TRUE]

Finite(coef, exp) == [coef |-> coef, exp |-> exp, nan |-> FALSE]

\* A decimal number is coef * 10^(-exp).  Decimal(t) keeps the digits of t
\* as they are written: Decimal("5.4100") is 54100 * 10^(-4).
Decimal(t) ==
    LET parts == SplitOn(Unsigned(t), ".")
        frac == IF Len(parts) = 2 THEN parts[2] ELSE <<>>
        mag == DigitsValue(parts[1] \o frac)
    IN  IF IsNaN(t) THEN NaN
        ELSE Finite(IF t[1] = "-" THEN 0 - mag ELSE mag, Len(frac))

\* a - b of two binary floating-point numbers, as float(end) - float(start)
\* would be: the difference of two fractions comes out wrong in a late
\* decimal place (the eighth here, the sixteenth in a double).
FloatSub(a, b) ==
    LET e == IF a.exp > b.exp THEN a.exp ELSE b.exp
        coef == a.coef * Pow10(e - a.exp) - b.coef * Pow10(e - b.exp)
    IN  IF a.nan \/ b.nan THEN NaN
        ELSE IF e = 0 \/ coef = 0 THEN Finite(coef, e)
        ELSE Finite(coef * Pow10(8 - e) + 4, 8)

\* a - b of two Decimals: exact, at the finer of the two exponents.
DecimalSub(a, b) ==
    LET e == IF a.exp > b.exp THEN a.exp ELSE b.exp
    IN  IF a.nan \/ b.nan THEN NaN
        ELSE Finite(a.coef * Pow10(e - a.exp) - b.coef * Pow10(e - b.exp), e)

\* A float is written as the decimal number it is nearest to, in lowest
\* terms (no trailing zero), so that equal floats are equal values.
RECURSIVE Reduce(_)
Reduce(d) ==
    IF d.nan THEN NaN
    ELSE IF d.coef = 0 THEN Finite(0, 0)
    ELSE IF d.exp > 0 /\ d.coef % 10 = 0
         THEN Reduce(Finite(d.coef \div 10, d.exp - 1))
         ELSE d

\* x <= 0 and x >= 0 of a float x: both are false of the number that is not
\* a number.
NotPositive(x) == ~x.nan /\ x.coef <= 0

NotNegative(x) == ~x.nan /\ x.coef >= 0

\* float(t) of a numeral t
float(t) == Reduce(Decimal(t))

\* int(t) of a numeral t
int(t) == Decimal(t).coef

\* ord(c)
ord(c) ==
    IF c \in AsciiUpper THEN 64 + (CHOOSE i \in 1..26 : UpperLetters[i] = c)
    ELSE IF c \in AsciiLower THEN 96 + (CHOOSE i \in 1..26 : LowerLetters[i] = c)
    ELSE IF c \in AsciiDigits THEN 48 + DigitValue(c)
    ELSE 0

\* str(n) of a natural number n
RECURSIVE str(_)
str(n) ==
    IF n < 10 THEN <<WesternDigits[n + 1]>>
    ELSE str(n \div 10) \o <<WesternDigits[(n % 10) + 1]>>

\* format(t, "0>{width}"): zeros on the left up to the width.
RECURSIVE PadLeft(_, _)
PadLeft(t, width) == IF Len(t) >= width THEN t ELSE PadLeft(<<"0">> \o t, width)

\* ------------------------------------------------------------------------
\* One transcript line of the Gulf, Iraqi and Levantine recipes
\* ------------------------------------------------------------------------

\* What the body of the loop over the lines does with one line.
Skip == [kind |-> "skip"]

Raise(exception) == [kind |-> "raise", error |-> exception]

Emit(segment) == [kind |-> "segment", segment |-> segment]

\* recording_id = p.stem in the Gulf recipe, (p.stem).lower() in the others
RecordingId(corpus, stem) == IF corpus = "gulf" THEN stem ELSE lower(stem)

\* The segment whose speaker is the recording id, an underscore and the
\* tag as it stands.
SegmentOfPlainSpeaker(recording_id, spk, idx, start, duration, text, channel) ==
    [id |-> recording_id \o <<"_">> \o PadLeft(spk, 2) \o <<"_">> \o PadLeft(str(idx), 5),
     recording_id |-> recording_id,
     start |-> start,
     duration |-> duration,
     speaker |-> recording_id \o <<"_">> \o spk,
     text |-> text,
     channel |-> channel]

\* SupervisionSegment(id=f"{recording_id}_{spk:0>2s}_{idx:0>5d}", ...)
SupervisionSegment(recording_id, spk, idx, start, duration, text, channel) ==
    [id |-> recording_id \o <<"_">> \o PadLeft(spk, 2) \o <<"_">> \o PadLeft(str(idx), 5),
     recording_id |-> recording_id,
     start |-> start,
     duration |-> duration,
     speaker |-> recording_id \o <<"_">> \o PadLeft(spk, 2),
     text |-> text,
     channel |-> channel]

\* duration = float(Decimal(end) - Decimal(start))
Duration(start, end) == Reduce(DecimalSub(Decimal(end), Decimal(start)))

\* The channel of a segment: 0 in the split train1c of the Gulf and Iraqi
\* recipes, ord(spk) - ord("A") everywhere else.
SingleChannel(corpus, split) == corpus \in {"gulf", "iraqi"} /\ split = "train1c"

ChannelOfLetter(corpus, split, spk) == ord(spk[1]) - ord("A")

Channel(corpus, split, spk) ==
    IF SingleChannel(corpus, split) THEN 0 ELSE ord(spk[1]) - ord("A")

\* From the parsed fields on, the Gulf, Iraqi and Levantine loops agree.
BuildSegment(corpus, split, text_cleaning, stem, idx, start, end, spk, raw) ==
    LET cleaned == IF text_cleaning THEN cleaning(corpus, raw) ELSE raw
        duration == Duration(start, end)
    IN  IF ~IsDecimal(end) \/ ~IsDecimal(start) THEN Raise("InvalidOperation")
        ELSE IF NotPositive(duration) \/ cleaned = <<>> THEN Skip
        ELSE IF ~SingleChannel(corpus, split) /\ Len(spk) # 1 THEN Raise("TypeError")
        ELSE Emit(SupervisionSegment(RecordingId(corpus, stem), spk, idx,
                                     float(start), duration, cleaned,
                                     Channel(corpus, split, spk)))

\* callhome_gulf.py and callhome_iraqi.py: the body of "for line in ...".
ParseTabLine(corpus, split, text_cleaning, stem, idx, rawline) ==
    LET line == strip(rawline)
        fields == SplitOn(line, "\t")
        time == str_split(Without(fields[1], {"[", "]"}))
        spk == Without(Without(fields[2], {":"}), AsciiDigits)
    IN  IF line = <<>> \/ Len(fields) < 4 THEN Skip
        ELSE IF Len(fields) # 4 THEN Raise("ValueError")
        ELSE IF Len(time) # 2 THEN Raise("ValueError")
        ELSE BuildSegment(corpus, split, text_cleaning, stem, idx,
                          time[1], time[2], spk, fields[3])

\* callhome_levant.py: the body of "for line in ...".
ParseSpaceLine(corpus, split, text_cleaning, stem, idx, rawline) ==
    LET line == strip(rawline)
        fields == SplitMax(line, 3)
    IN  IF line = <<>> \/ Len(str_split(line)) < 4 THEN Skip
        ELSE BuildSegment(corpus, split, text_cleaning, stem, idx,
                          fields[1], fields[2], Without(fields[3], {":"}),
                          fields[4])

ParseLine(corpus, split, text_cleaning, stem, idx, rawline) ==
    IF corpus = "levant"
    THEN ParseSpaceLine(corpus, split, text_cleaning, stem, idx, rawline)
    ELSE ParseTabLine(corpus, split, text_cleaning, stem, idx, rawline)

\* ------------------------------------------------------------------------
\* Manifests
\* ------------------------------------------------------------------------

\* A RecordingSet is the recordings it is known to hold, each with its id
\* and its number of channels, and a count of further recordings in each
\* subset of the Levantine corpus, of which only the subset matters.
NoMore == [dev |-> 0, test |-> 0, train |-> 0]

RecordingSetOf(recs, more) == [recs |-> recs, more |-> more]

EmptyRecordingSet == RecordingSetOf({}, NoMore)

\* A SupervisionSet is the sequence of its segments.
HasDuplicateIds(segments) ==
    \E i, j \in 1..Len(segments) : i < j /\ segments[i].id = segments[j].id

HasRecording(recordings, recording_id) ==
    \E r \in recordings.recs : r.id = recording_id

\* fix_manifests: the supervisions of no recording are dropped.
fix_manifests(recordings, segments) ==
    LET Known(s) == HasRecording(recordings, s.recording_id)
    IN  [recordings |-> recordings, supervisions |-> SelectSeq(segments, Known)]

\* What validate_recordings_and_supervisions asserts: the start is not
\* negative, the end is within the recording (the recordings here are long
\* enough for every end that is a number), and the recording exists and
\* has the channel.
IsValid(recordings, segments) ==
    \A i \in 1..Len(segments) :
        /\ NotNegative(segments[i].start)
        /\ ~segments[i].duration.nan
        /\ \E r \in recordings.recs :
               /\ r.id = segments[i].recording_id
               /\ segments[i].channel \in 0..(r.num_channels - 1)

\* ------------------------------------------------------------------------
\* lev_split
\* ------------------------------------------------------------------------

\* re.match of a pattern that is a sequence of character classes: the
\* pattern is matched at the start of the text.
re_match(pattern, t) ==
    /\ Len(t) >= Len(pattern)
    /\ \A i \in 1..Len(pattern) : t[i] \in pattern[i]

\* re.compile("fla_00[0-7][0-9]")
dev_re == <<{"f"}, {"l"}, {"a"}, {"_"}, {"0"}, {"0"},
            {"0", "1", "2", "3", "4", "5", "6", "7"}, AsciiDigits>>

\* re.compile("fla_01[0-7][0-9]")
test_re == <<{"f"}, {"l"}, {"a"}, {"_"}, {"0"}, {"1"},
             {"0", "1", "2", "3", "4", "5", "6", "7"}, AsciiDigits>>

IsDev(id) == re_match(dev_re, id)

IsTest(id) == re_match(test_re, id)

\* The filter of the training subset without its second half.
NotTest(id) == ~re_match(test_re, id)

IsTrain(id) == ~re_match(test_re, id) /\ ~re_match(dev_re, id)

\* The counts lev_split asserts.
ExpectedDev == 79

ExpectedTest == 80

ExpectedTrain == 1499

\* The six filters of lev_split.
LevSubsets(all_supervisions, all_recordings) ==
    LET SupTrain(s) == IsTrain(s.recording_id)
        SupDev(s) == IsDev(s.recording_id)
        SupTest(s) == IsTest(s.recording_id)
        more == all_recordings.more
    IN  [sup_lev_train |-> SelectSeq(all_supervisions, SupTrain),
         sup_lev_dev |-> SelectSeq(all_supervisions, SupDev),
         sup_lev_test |-> SelectSeq(all_supervisions, SupTest),
         rec_lev_train |-> RecordingSetOf({r \in all_recordings.recs : IsTrain(r.id)},
                                          [NoMore EXCEPT !.train = more.train]),
         rec_lev_dev |-> RecordingSetOf({r \in all_recordings.recs : IsDev(r.id)},
                                        [NoMore EXCEPT !.dev = more.dev]),
         rec_lev_test |-> RecordingSetOf({r \in all_recordings.recs : IsTest(r.id)},
                                         [NoMore EXCEPT !.test = more.test])]

\* len() of a RecordingSet
RecLen(recordings) ==
    Cardinality(recordings.recs)
        + recordings.more.dev + recordings.more.test + recordings.more.train

\* The manifest files are a function from the names of the files that
\* exist to what was written to them; <<c, k, s>> is the name of the file
\* "{c}_{k}_{s}.jsonl.gz" of the output directory.
NoFiles == <<>>

File(corpus, kind, split, content) == <<corpus, kind, split>> :> content

\* lev_split(all_supervisions, all_recordings, output_dir): the subsets, the
\* exception it ends with ("none" when it returns) and the files it writes.
\* The breakpoint at its start is stepped over.
lev_split(all_supervisions, all_recordings) ==
    LET sub == LevSubsets(all_supervisions, all_recordings)
        passed == /\ RecLen(sub.rec_lev_dev) = ExpectedDev
                  /\ RecLen(sub.rec_lev_test) = ExpectedTest
                  /\ RecLen(sub.rec_lev_train) = ExpectedTrain
    IN  [subsets |-> sub,
         error |-> IF passed THEN "none" ELSE "AssertionError",
         files |-> IF ~passed THEN NoFiles
                   ELSE File("lev", "recordings", "train", sub.rec_lev_train)
                        @@ File("lev", "supervisions", "train", sub.sup_lev_train)
                        @@ File("lev", "recordings", "dev", sub.rec_lev_dev)
                        @@ File("lev", "supervisions", "dev", sub.sup_lev_dev)
                        @@ File("lev", "recordings", "test", sub.rec_lev_test)
                        @@ File("lev", "supervisions", "test", sub.sup_lev_test)]

\* The further recordings with which those of the ids make up the counts
\* lev_split expects.
RestOfRelease(ids) ==
    [dev |-> ExpectedDev - Cardinality({r \in ids : IsDev(r)}),
     test |-> ExpectedTest - Cardinality({r \in ids : IsTest(r)}),
     train |-> ExpectedTrain - Cardinality({r \in ids : IsTrain(r)})]

\* ------------------------------------------------------------------------
\* read_text and make_supervisions of qasr.py
\* ------------------------------------------------------------------------

\* SupervisionSegment(id=..., channel=0, language='ar', ...)
QasrSegment(id, recording_id, start, duration, text, speaker) ==
    [id |-> id,
     recording_id |-> recording_id,
     start |-> start,
     duration |-> duration,
     channel |-> 0,
     text |-> text,
     language |-> "ar",
     speaker |-> speaker]

\* float(int(t) / 100)
Hundredths(t) == Reduce(Finite(int(t), 2))

\* read_text: the body of "for line in lines".
ReadTextLine(rawline) ==
    LET words == str_split(strip(rawline))
        line1 == words[1]
        text == join(<<" ">>, Tail(words))
        parts == SplitOn(line1, "_")
        spk == SplitOn(parts[2], "-")
        time == SplitOn(replace(parts[3], <<"s", "e", "g", "-">>, <<>>), ":")
    IN  IF words = <<>> THEN Raise("IndexError")
        ELSE IF Len(parts) # 3 THEN Raise("ValueError")
        ELSE IF Len(spk) < 2 THEN Raise("IndexError")
        ELSE IF ~IsInteger(spk[2]) THEN Raise("ValueError")
        ELSE IF Len(time) # 2 THEN Raise("ValueError")
        ELSE IF ~IsInteger(time[1]) \/ ~IsInteger(time[2]) THEN Raise("ValueError")
        ELSE Emit(QasrSegment(
                 parts[1] \o <<"_">> \o str(int(spk[2])) \o <<"_">> \o time[1]
                     \o <<"_">> \o time[2],
                 parts[1],
                 Hundredths(time[1]),
                 Reduce(DecimalSub(Hundredths(time[2]), Hundredths(time[1]))),
                 text,
                 int(spk[2])))

\* mer_thresh is an int or None
None == <<>>

\* mer_thresh is None or float(segment["WMER"]) < mer_thresh
RetainedBelow(segment, mer_thresh) ==
    \/ mer_thresh = None
    \/ LET x == float(segment.WMER)
       IN  ~x.nan /\ x.coef < mer_thresh[1] * Pow10(x.exp)

\* mer_thresh is None or float(segment["WMER"]) <= mer_thresh
Retained(segment, mer_thresh) ==
    \/ mer_thresh = None
    \/ LET x == float(segment.WMER)
       IN  ~x.nan /\ x.coef <= mer_thresh[1] * Pow10(x.exp)

\* \w
WordChar(c) ==
    c \in AsciiLower \cup AsciiUpper \cup UnicodeDigits \cup ArabicLetters \cup {"_"}

\* The end of the run of digits that starts at i.
RECURSIVE DigitsEnd(_, _)
DigitsEnd(t, i) ==
    IF i <= Len(t) /\ t[i] \in UnicodeDigits THEN DigitsEnd(t, i + 1) ELSE i

\* match(r"\w+speaker(\d+)\w+", who).group(1), for a who that holds the
\* word "speaker" once: <<>> when there is no match.  The digits go to the
\* group, but for the last when no word character follows them.
WhoSpeaker(who) ==
    LET speaker_word == <<"s", "p", "e", "a", "k", "e", "r">>
        at == {i \in 2..Len(who) :
                  /\ OccursAt(who, i, speaker_word)
                  /\ \A k \in 1..(i - 1) : WordChar(who[k])}
        i == CHOOSE k \in at : TRUE
        first == i + Len(speaker_word)
        last == DigitsEnd(who, first) - 1
    IN  IF at = {} \/ last < first THEN <<>>
        ELSE IF last < Len(who) /\ WordChar(who[last + 1])
             THEN SubSeq(who, first, last)
             ELSE SubSeq(who, first, last - 1)

\* int(float(t) * 100), for a time that is not negative
Centiseconds(t) == (float(t).coef * 100) \div Pow10(float(t).exp)

\* segment["id"].split("_utt")[0]
BeforeUtt(id) ==
    LET utt_mark == <<"_", "u", "t", "t">> IN
    IF Contains(id, utt_mark)
    THEN SubSeq(id, 1, (CHOOSE i \in 1..Len(id) :
                            /\ OccursAt(id, i, utt_mark)
                            /\ \A k \in 1..(i - 1) : ~OccursAt(id, k, utt_mark)) - 1)
    ELSE id

\* The SupervisionSegment make_supervisions builds from a segment element.
XmlSupervision(segment) ==
    LET speaker == int(WhoSpeaker(segment.who))
        HasString(element) == element # <<>>
    IN  QasrSegment(
            BeforeUtt(segment.id) \o <<"_">> \o str(speaker) \o <<"_">>
                \o PadLeft(str(Centiseconds(segment.starttime)), 7) \o <<"_">>
                \o PadLeft(str(Centiseconds(segment.endtime)), 7),
            replace(BeforeUtt(segment.id), <<"_">>, <<"-">>),
            float(segment.starttime),
            Reduce(DecimalSub(float(segment.endtime), float(segment.starttime))),
            join(<<" ">>, SelectSeq(segment.elements, HasString)),
            speaker)

\* What becomes of one segment element: it is left out, or it gives a
\* SupervisionSegment, or an attribute of it makes the comprehension raise.
XmlOutcome(segment, mer_thresh) ==
    IF mer_thresh # None /\ ~IsDecimal(segment.WMER) THEN Raise("ValueError")
    ELSE IF ~Retained(segment, mer_thresh) THEN Skip
    ELSE IF WhoSpeaker(segment.who) = <<>> THEN Raise("AttributeError")
    ELSE IF \/ ~IsDecimal(segment.starttime) \/ ~IsDecimal(segment.endtime)
            \/ IsNaN(segment.starttime) \/ IsNaN(segment.endtime)
         THEN Raise("ValueError")
    ELSE Emit(XmlSupervision(segment))

\* make_supervisions(xml_path, mer_thresh): the list of the segments, or
\* the exception of the first element that raises.
RECURSIVE make_supervisions(_, _)
make_supervisions(document, mer_thresh) ==
    IF document = <<>> THEN [kind |-> "list", segments |-> <<>>]
    ELSE LET first == XmlOutcome(Head(document), mer_thresh)
             rest == make_supervisions(Tail(document), mer_thresh)
         IN  IF first.kind = "raise" THEN first
             ELSE IF rest.kind = "raise" THEN rest
             ELSE IF first.kind = "skip" THEN rest
             ELSE [kind |-> "list", segments |-> <<first.segment>> \o rest.segments]

\* SupervisionSet.filter(lambda s: s.duration > 0.0)
PositiveDuration(s) == ~s.duration.nan /\ s.duration.coef > 0

\* SupervisionSet.transform_text(cleaning)
transform_text(segments) ==
    [i \in 1..Len(segments) |->
        [segments[i] EXCEPT !.text = cleaning("qasr", segments[i].text)]]

\* The counts prepare_qasr asserts.
ExpectedTestSupervisions == 5366

ExpectedDevSupervisions == 5002

ExpectedTrainSupervisions == 1592226

ExpectedSupervisions(part) ==
    CASE part = "test" -> ExpectedTestSupervisions
      [] part = "dev" -> ExpectedDevSupervisions
      [] OTHER -> ExpectedTrainSupervisions

\* dataset_parts = ["test", "train_20210109", "dev"]
dataset_parts == <<"test", "train_20210109", "dev">>

\* ------------------------------------------------------------------------
\* The files of a corpus
\* ------------------------------------------------------------------------

\* The lines a transcript file of the tab-delimited recipes may hold.
Tab == [
    \* A line of white space
    Blank |->
        <<" ", " ">>,
    \* Two fields only
    TwoFields |->
        <<"[", "3", ".", "2", "7", "0", "1", "]", " ", "[", "5", ".", "4", "1",
         "0", "0", "]", "\t", "B", ":">>,
    \* The example line of the source (callhome_gulf.py:70)
    Example |->
        <<"[", "3", ".", "2", "7", "0", "1", "]", " ", "[", "5", ".", "4", "1",
         "0", "0", "]", "\t", "B", ":", "\t", "u0623", "u0644", "u0648", " ",
         "(", "u0636", "u062C", "u0629", ")", "\t", ">", "a", "l", "a", "w",
         " ", "(", "D", "j", "p", ")">>,
    \* Speaker A, with a digit in the tag
    SpeakerA |->
        <<"[", "7", ".", "2", "9", "]", " ", "[", "8", ".", "3", "5", "]", "\t",
         "A", "1", ":", "\t", "u0623", "u0644", "u0648", "\t", ">", "a", "l",
         "a", "w">>,
    \* Five fields
    FiveFields |->
        <<"[", "7", ".", "2", "9", "]", " ", "[", "8", ".", "3", "5", "]", "\t",
         "A", ":", "\t", "u0623", "u0644", "u0648", "\t", ">", "a", "l", "a",
         "w", "\t", "x">>,
    \* One timestamp only
    OneTime |->
        <<"[", "3", ".", "2", "7", "0", "1", "]", "\t", "A", ":", "\t", "u0623",
         "u0644", "u0648", "\t", ">", "a", "l", "a", "w">>,
    \* A tag of two letters
    TwoLetters |->
        <<"[", "7", ".", "2", "9", "]", " ", "[", "8", ".", "3", "5", "]", "\t",
         "A", "B", ":", "\t", "u0623", "u0644", "u0648", "\t", ">", "a", "l",
         "a", "w">>,
    \* End equal to start
    Zero |->
        <<"[", "7", ".", "2", "9", "]", " ", "[", "7", ".", "2", "9", "0", "]",
         "\t", "A", ":", "\t", "u0623", "u0644", "u0648", "\t", ">", "a", "l",
         "a", "w">>,
    \* Nothing but an annotation word
    Noise |->
        <<"[", "7", ".", "2", "9", "]", " ", "[", "8", ".", "3", "5", "]", "\t",
         "A", ":", "\t", "(", "u0636", "u062C", "u0629", ")", "\t", "(", "D",
         "j", "p", ")">>,
    \* A timestamp that is no number
    BadTime |->
        <<"[", "x", "]", " ", "[", "8", ".", "3", "5", "]", "\t", "A", ":", "\t",
         "u0623", "u0644", "u0648", "\t", ">", "a", "l", "a", "w">>,
    \* An end that is not a number
    NaN |->
        <<"[", "7", ".", "2", "9", "]", " ", "[", "N", "a", "N", "]", "\t", "A",
         ":", "\t", "u0623", "u0644", "u0648", "\t", ">", "a", "l", "a", "w">>]

\* The lines a Levantine transcript file may hold.
Space == [
    \* An empty line
    Blank |->
        <<>>,
    \* Three tokens only
    ThreeTokens |->
        <<"7", ".", "2", "9", " ", "8", ".", "3", "5", " ", "A", ":">>,
    \* The example line of the source (callhome_levant.py:97)
    Example |->
        <<"7", ".", "2", "9", " ", "8", ".", "3", "5", " ", "A", ":", " ",
         "u064A", "u0639", "u0637", "u064A", "u0643", " ", "u0627", "u0644",
         "u0639", "u0627", "u0641", "u064A", "u0629">>,
    \* Speaker B
    SpeakerB |->
        <<"3", ".", "2", "7", "0", "1", " ", "5", ".", "4", "1", "0", "0", " ",
         "B", ":", " ", "u0623", "u0644", "u0648", " ", "%", "u0645", "u0647",
         "u0645">>,
    \* A tag of two letters
    TwoLetters |->
        <<"7", ".", "2", "9", " ", "8", ".", "3", "5", " ", "A", "B", ":", " ",
         "u0623", "u0644", "u0648">>,
    \* End equal to start
    Zero |->
        <<"7", ".", "2", "9", " ", "7", ".", "2", "9", "0", " ", "A", ":", " ",
         "u0623", "u0644", "u0648">>,
    \* Nothing but an annotation word
    Noise |->
        <<"7", ".", "2", "9", " ", "8", ".", "3", "5", " ", "A", ":", " ", "%",
         "u0645", "u0647", "u0645">>,
    \* A timestamp that is no number
    BadTime |->
        <<"x", " ", "8", ".", "3", "5", " ", "A", ":", " ", "u0623", "u0644",
         "u0648">>,
    \* An end that is not a number
    NaN |->
        <<"7", ".", "2", "9", " ", "N", "a", "N", " ", "A", ":", " ", "u0623",
         "u0644", "u0648">>]

\* The lines a text file of the test and dev parts may hold.
QasrLine == [
    \* A line of the text file
    Example |->
        <<"r", "e", "c", "-", "1", "_", "s", "p", "k", "-", "0", "0", "0", "2",
         "_", "s", "e", "g", "-", "0", "0", "0", "0", "1", "2", "3", ":", "0",
         "0", "0", "0", "4", "5", "6", " ", "u0645", "u0631", "u062D", "u0628",
         "u0627", " ", "u0628", "u0643", "u0645">>,
    \* A text of one word of one letter
    SingleChar |->
        <<"r", "e", "c", "-", "1", "_", "s", "p", "k", "-", "0", "0", "0", "2",
         "_", "s", "e", "g", "-", "0", "0", "0", "0", "5", "0", "0", ":", "0",
         "0", "0", "0", "6", "5", "0", " ", "u0648">>,
    \* No text after the name of the segment
    NoText |->
        <<"r", "e", "c", "-", "1", "_", "s", "p", "k", "-", "0", "0", "0", "1",
         "_", "s", "e", "g", "-", "0", "0", "0", "0", "7", "0", "0", ":", "0",
         "0", "0", "0", "8", "0", "0">>,
    \* End equal to start
    Zero |->
        <<"r", "e", "c", "-", "1", "_", "s", "p", "k", "-", "0", "0", "0", "1",
         "_", "s", "e", "g", "-", "0", "0", "0", "0", "9", "0", "0", ":", "0",
         "0", "0", "0", "9", "0", "0", " ", "u0646", "u0639", "u0645">>,
    \* An empty line
    Blank |->
        <<>>,
    \* A name of two parts
    TwoParts |->
        <<"r", "e", "c", "-", "1", "_", "s", "e", "g", "-", "0", "0", "0", "0",
         "1", "2", "3", ":", "0", "0", "0", "0", "4", "5", "6", " ", "u0646",
         "u0639", "u0645">>,
    \* Times written without leading zeros
    Short |->
        <<"r", "e", "c", "-", "1", "_", "s", "p", "k", "-", "0", "0", "0", "3",
         "_", "s", "e", "g", "-", "1", "2", "3", ":", "4", "5", "6", " ",
         "u0646", "u0639", "u0645">>,
    \* A start before the start of the recording
    Negative |->
        <<"r", "e", "c", "-", "1", "_", "s", "p", "k", "-", "0", "0", "0", "1",
         "_", "s", "e", "g", "-", "-", "0", "0", "0", "0", "5", "0", ":", "0",
         "0", "0", "0", "1", "0", "0", " ", "u0646", "u0639", "u0645">>]

\* The segment elements an XML file of the train part may hold.
Xml == [
    \* A segment element well under the default threshold; its second element
    \* has no string
    Low |->
        [id |-> <<"r", "e", "c", "_", "1", "_", "u", "t", "t", "_", "1">>,
         who |-> <<"r", "e", "c", "_", "1", "_", "s", "p", "e", "a", "k", "e", "r", "3", "_", "a", "l", "i", "g", "n">>,
         starttime |-> <<"1", ".", "2", "5">>,
         endtime |-> <<"2", ".", "5">>,
         WMER |-> <<"1", "2", ".", "5">>,
         elements |-> <<<<"u0645", "u0631", "u062D", "u0628", "u0627">>, <<>>, <<"u0628", "u0643", "u0645">>>>],
    \* A segment element at the default threshold: one word of one letter
    Edge |->
        [id |-> <<"r", "e", "c", "_", "1", "_", "u", "t", "t", "_", "2">>,
         who |-> <<"r", "e", "c", "_", "1", "_", "s", "p", "e", "a", "k", "e", "r", "1", "2", "_", "a", "l", "i", "g", "n">>,
         starttime |-> <<"2", ".", "5">>,
         endtime |-> <<"4">>,
         WMER |-> <<"8", "0">>,
         elements |-> <<<<"u0648">>>>],
    \* A segment element just over the default threshold
    High |->
        [id |-> <<"r", "e", "c", "_", "1", "_", "u", "t", "t", "_", "3">>,
         who |-> <<"r", "e", "c", "_", "1", "_", "s", "p", "e", "a", "k", "e", "r", "3", "_", "a", "l", "i", "g", "n">>,
         starttime |-> <<"4">>,
         endtime |-> <<"5", ".", "7", "5">>,
         WMER |-> <<"8", "0", ".", "5">>,
         elements |-> <<<<"u0646", "u0639", "u0645">>>>],
    \* A segment element whose WMER is no number
    Bad |->
        [id |-> <<"r", "e", "c", "_", "1", "_", "u", "t", "t", "_", "4">>,
         who |-> <<"r", "e", "c", "_", "1", "_", "s", "p", "e", "a", "k", "e", "r", "3", "_", "a", "l", "i", "g", "n">>,
         starttime |-> <<"5", ".", "7", "5">>,
         endtime |-> <<"6">>,
         WMER |-> <<"x">>,
         elements |-> <<<<"u0646", "u0639", "u0645">>>>]]

rec_1 == <<"r", "e", "c", "-", "1">>

QasrLines == {QasrLine[k] : k \in DOMAIN QasrLine}

XmlSegments == {Xml[k] : k \in DOMAIN Xml}

\* The recordings of the wav directories.
QasrAudio == {[id |-> rec_1, num_channels |-> 1]}

\* The lines a transcript file of a recipe may hold.
LinesOf(corpus) ==
    IF corpus = "levant"
    THEN {Space[k] : k \in DOMAIN Space}
    ELSE {Tab[k] : k \in DOMAIN Tab}

fla_0012 == <<"f", "l", "a", "_", "0", "0", "1", "2">>

FLA_0112 == <<"F", "L", "A", "_", "0", "1", "1", "2">>

fla_0112 == <<"f", "l", "a", "_", "0", "1", "1", "2">>

fla_0212 == <<"f", "l", "a", "_", "0", "2", "1", "2">>

\* The transcript files a directory tree may hold: two of them have the
\* same name in different directories.
TranscriptPaths == {[dir |-> "00", stem |-> fla_0012],
                    [dir |-> "01", stem |-> fla_0012],
                    [dir |-> "01", stem |-> FLA_0112]}

\* The recordings of the audio directory: no recording goes with the
\* transcript FLA_0112, and the last has one channel.
Audio == {[id |-> fla_0012, num_channels |-> 2],
          [id |-> fla_0212, num_channels |-> 1]}

\* The further recordings of the Levantine release.
ReleaseMore == RestOfRelease({r.id : r \in Audio})

\* for split in ["devtest", "train2c", "train1c"]; the Levantine recipe
\* makes one pass over all its files.
SplitsOf(corpus) ==
    IF corpus = "levant" THEN <<"all">> ELSE <<"devtest", "train2c", "train1c">>

\* validate_recordings_and_supervisions(recordings, supervisions) alone
ValidateOnly(recordings, segments) ==
    [ok |-> IsValid(recordings, segments),
     recordings |-> recordings,
     supervisions |-> segments]

\* recordings, supervisions = fix_manifests(recordings, supervisions)
\* validate_recordings_and_supervisions(recordings, supervisions)
FixAndValidate(recordings, segments) ==
    LET fixed == fix_manifests(recordings, segments)
    IN  [ok |-> IsValid(fixed.recordings, fixed.supervisions),
         recordings |-> fixed.recordings,
         supervisions |-> fixed.supervisions]

\* The two files of a split, written when output_dir is given.
SplitFiles(corpus, split, output_dir, recordings, segments) ==
    IF output_dir = "None" THEN NoFiles
    ELSE File(corpus, "recordings", split, recordings)
         @@ File(corpus, "supervisions", split, segments)

\* The supervisions of a part: the segments that are followed here, and a
\* count of the further segments of the part, which only the asserted
\* counts depend on.
QasrSupervisions(segments, rest) == [segments |-> segments, rest |-> rest]

\* The two files of a part.
PartFiles(part, recs, sups) ==
    File("qasr", "recordings", part, recs) @@ File("qasr", "supervisions", part, sups)

\* The files an earlier call may have left in output_dir: those of the
\* test part.
EarlierFiles ==
    PartFiles("test", RecordingSetOf(QasrAudio, NoMore),
              QasrSupervisions(<<>>, ExpectedTestSupervisions))

\* manifests_exist(part=part, output_dir=output_dir, prefix="qasr", ...)
manifests_exist(part, output_dir, files) ==
    /\ output_dir # "None"
    /\ <<"qasr", "recordings", part>> \in DOMAIN files
    /\ <<"qasr", "supervisions", part>> \in DOMAIN files

\* read_manifests_if_cached(dataset_parts, output_dir, prefix="qasr", ...)
read_manifests_if_cached(output_dir, files) ==
    LET cached == {dataset_parts[i] : i \in {k \in 1..Len(dataset_parts) :
                       manifests_exist(dataset_parts[k], output_dir, files)}}
    IN  [part \in cached |->
            [recordings |-> files[<<"qasr", "recordings", part>>],
             supervisions |-> files[<<"qasr", "supervisions", part>>]]]

\* ------------------------------------------------------------------------
\* State
\* ------------------------------------------------------------------------

VARIABLES
    pipeline,      \* the recipe whose cleaning() is applied
    text,          \* the text as it is now
    before,        \* the text the last cleaning() was given
    passes,        \* the number of times cleaning() has been applied
    corpus,        \* the recipe that runs: "gulf", "iraqi", "levant" or "qasr"
    text_cleaning, \* the argument text_cleaning
    output_dir,    \* the argument output_dir: "out" or "None"
    audio,         \* the recordings in each audio directory of the corpus
    mer_thresh,    \* the argument mer_thresh of prepare_qasr
    pc,            \* where the call is: "split", "files", "lines", "done", "raised";
                   \* in prepare_qasr also "call", "part", "xml"
    split_no,      \* the index of the split in SplitsOf(corpus)
    recordings,    \* the RecordingSet of the split
    opened,        \* the transcript files of the split read so far
    path,          \* p, the transcript file being read
    idx,           \* the sequence index within the file
    supervisions,  \* the segments of the split, then its SupervisionSet
    subsets,       \* what the filters of lev_split gave
    manifests,     \* the mapping the call returns
    written,       \* the manifest files written
    error,         \* the exception the call ended with, or "none"
    lines_read,    \* the lines and the segment elements read in the call
    files_opened,  \* the transcript files and XML files opened in the call
    document       \* the segment elements of the XML file read last

cleanVars == <<pipeline, text, before, passes>>

\* The arguments of the call and the directories it is given.
params == <<corpus, text_cleaning, output_dir, audio, mer_thresh>>

prepareVars == <<params, pc, split_no, recordings,
                 opened, path, idx, supervisions, subsets, manifests,
                 written, error, lines_read, files_opened, document>>

vars == <<cleanVars, prepareVars>>

NoPath == [dir |-> "", stem |-> <<>>]

NoSubsets == LevSubsets(<<>>, EmptyRecordingSet)

CleanIdle ==
    /\ pipeline = "gulf"
    /\ text = <<>>
    /\ before = <<>>
    /\ passes = 0

PrepareIdle ==
    /\ corpus = "gulf"
    /\ text_cleaning = TRUE
    /\ output_dir = "None"
    /\ audio = {}
    /\ mer_thresh = None
    /\ pc = "done"
    /\ split_no = 1
    /\ recordings = EmptyRecordingSet
    /\ opened = {}
    /\ path = NoPath
    /\ idx = 0
    /\ supervisions = <<>>
    /\ subsets = NoSubsets
    /\ manifests = <<>>
    /\ written = NoFiles
    /\ error = "none"
    /\ lines_read = 0
    /\ files_opened = 0
    /\ document = <<>>

\* ------------------------------------------------------------------------
\* prepare_callhome_gulf, prepare_callhome_iraqi, prepare_callhome_levant
\* ------------------------------------------------------------------------

\* The most lines read in one call.
MaxLines == 2

\* The most transcript files opened in one call.
MaxFiles == 2

Split == SplitsOf(corpus)[split_no]

Init ==
    /\ CleanIdle
    /\ corpus \in {"gulf", "iraqi", "levant"}
    /\ text_cleaning \in BOOLEAN
    /\ output_dir \in {"out", "None"}
    /\ audio = Audio
    /\ mer_thresh = None
    /\ pc = "split"
    /\ split_no = 1
    /\ recordings = EmptyRecordingSet
    /\ opened = {}
    /\ path = NoPath
    /\ idx = 0
    /\ supervisions = <<>>
    /\ subsets = NoSubsets
    /\ manifests = <<>>
    /\ written = NoFiles
    /\ error = "none"
    /\ lines_read = 0
    /\ files_opened = 0
    /\ document = <<>>

\* The head of the loop over the splits: the recordings of the audio
\* directory and the transcript files of the transcript directory, which
\* check_and_rglob must find.
StartSplit ==
    /\ pc = "split"
    /\ \E found \in BOOLEAN,
          more \in IF corpus = "levant" THEN {NoMore, ReleaseMore} ELSE {NoMore} :
          /\ recordings' = RecordingSetOf(audio, more)
          /\ IF corpus # "levant" /\ ~found
             THEN pc' = "raised" /\ error' = "AssertionError"
             ELSE pc' = "files" /\ error' = error
    /\ supervisions' = <<>>
    /\ opened' = {}
    /\ UNCHANGED <<cleanVars, params, document, split_no, path,
                   idx, subsets, manifests, written, lines_read,
                   files_opened>>

\* The place of a transcript file in the order in which the directory
\* tree is walked.
DirectoryOrder(p) ==
    IF p.dir = "00" THEN 1 ELSE IF p.stem = fla_0012 THEN 2 ELSE 3

\* for p in transcript_paths, with one index for all the files.
OpenFileSharedIndex ==
    /\ pc = "files"
    /\ files_opened < MaxFiles
    /\ \E p \in TranscriptPaths \ opened :
          /\ \A q \in opened : DirectoryOrder(q) < DirectoryOrder(p)
          /\ path' = p
          /\ opened' = opened \cup {p}
    /\ idx' = idx
    /\ pc' = "lines"
    /\ files_opened' = files_opened + 1
    /\ UNCHANGED <<cleanVars, params, document, split_no,
                   recordings, supervisions, subsets, manifests, written,
                   error, lines_read>>

\* for p in transcript_paths: idx = 0. The files come in the order of the
\* walk; any of them may be absent.
OpenFile ==
    /\ pc = "files"
    /\ files_opened < MaxFiles
    /\ \E p \in TranscriptPaths \ opened :
          /\ \A q \in opened : DirectoryOrder(q) < DirectoryOrder(p)
          /\ path' = p
          /\ opened' = opened \cup {p}
    /\ idx' = 0
    /\ pc' = "lines"
    /\ files_opened' = files_opened + 1
    /\ UNCHANGED <<cleanVars, params, document, split_no,
                   recordings, supervisions, subsets, manifests, written,
                   error, lines_read>>

\* for line in p.read_text().splitlines(): one turn of the loop
ReadLine ==
    /\ pc = "lines"
    /\ corpus # "qasr"
    /\ lines_read < MaxLines
    /\ \E l \in LinesOf(corpus) :
          LET out == ParseLine(corpus, Split, text_cleaning, path.stem, idx, l)
          IN  /\ supervisions' = IF out.kind = "segment"
                                 THEN Append(supervisions, out.segment)
                                 ELSE supervisions
              /\ idx' = IF out.kind = "segment" THEN idx + 1 ELSE idx
              /\ pc' = IF out.kind = "raise" THEN "raised" ELSE pc
              /\ error' = IF out.kind = "raise" THEN out.error ELSE error
    /\ lines_read' = lines_read + 1
    /\ UNCHANGED <<cleanVars, params, document, split_no,
                   recordings, opened, path, subsets, manifests, written,
                   files_opened>>

\* The lines of the file are exhausted: p and idx keep their values.
CloseFile ==
    /\ pc = "lines"
    /\ corpus # "qasr"
    /\ pc' = "files"
    /\ UNCHANGED <<cleanVars, params, document, split_no, recordings, opened, path, idx,
                   supervisions, subsets, manifests, written, error,
                   lines_read, files_opened>>

\* The same with the files and the entry of the split written before the
\* manifests are validated.
AssembleSplitWriteFirst ==
    LET checked == FixAndValidate(recordings, supervisions)
    IN  /\ written' = SplitFiles(corpus, Split, output_dir,
                                 checked.recordings, checked.supervisions)
                           @@ written
        /\ manifests' = (Split :> [recordings |-> checked.recordings,
                                   supervisions |-> checked.supervisions])
                            @@ manifests
        /\ IF HasDuplicateIds(supervisions) \/ ~checked.ok
           THEN /\ pc' = "raised"
                /\ error' = "AssertionError"
                /\ UNCHANGED <<recordings, supervisions, split_no, subsets>>
           ELSE /\ recordings' = checked.recordings
                /\ supervisions' = checked.supervisions
                /\ IF split_no < Len(SplitsOf(corpus))
                   THEN pc' = "split" /\ split_no' = split_no + 1
                   ELSE pc' = "done" /\ split_no' = split_no
                /\ UNCHANGED <<error, subsets>>

\* The rest of the call once the files of a split are exhausted, in the
\* Gulf and Iraqi recipes: SupervisionSet.from_segments, fix_manifests,
\* validate, to_file, manifests[split], and the next split.
AssembleSplit ==
    LET checked == FixAndValidate(recordings, supervisions)
    IN  IF HasDuplicateIds(supervisions) \/ ~checked.ok
        THEN /\ pc' = "raised"
             /\ error' = "AssertionError"
             /\ UNCHANGED <<recordings, supervisions, written, manifests,
                            split_no, subsets>>
        ELSE /\ recordings' = checked.recordings
             /\ supervisions' = checked.supervisions
             /\ written' = SplitFiles(corpus, Split, output_dir,
                                      checked.recordings, checked.supervisions)
                                @@ written
             /\ manifests' = (Split :> [recordings |-> checked.recordings,
                                        supervisions |-> checked.supervisions])
                                 @@ manifests
             /\ IF split_no < Len(SplitsOf(corpus))
                THEN pc' = "split" /\ split_no' = split_no + 1
                ELSE pc' = "done" /\ split_no' = split_no
             /\ UNCHANGED <<error, subsets>>

\* The same in the Levantine recipe: the files of the whole corpus are
\* written, output_dir is made a Path, the files are read back, lev_split
\* runs, and the whole corpus is returned under "train".
AssembleLevant ==
    LET checked == FixAndValidate(recordings, supervisions)
        parts == lev_split(checked.supervisions, checked.recordings)
    IN  /\ split_no' = split_no
        /\ IF HasDuplicateIds(supervisions) \/ ~checked.ok
           THEN /\ pc' = "raised"
                /\ error' = "AssertionError"
                /\ UNCHANGED <<recordings, supervisions, written, manifests, subsets>>
           ELSE /\ recordings' = checked.recordings
                /\ supervisions' = checked.supervisions
                /\ IF output_dir = "None"
                   THEN /\ pc' = "raised"
                        /\ error' = "TypeError"
                        /\ UNCHANGED <<written, manifests, subsets>>
                   ELSE /\ subsets' = parts.subsets
                        /\ written' = parts.files
                               @@ SplitFiles("levant", "all", output_dir,
                                             checked.recordings, checked.supervisions)
                               @@ written
                        /\ IF parts.error # "none"
                           THEN /\ pc' = "raised"
                                /\ error' = parts.error
                                /\ UNCHANGED manifests
                           ELSE /\ pc' = "done"
                                /\ error' = error
                                /\ manifests' =
                                       ("train" :> [recordings |-> checked.recordings,
                                                    supervisions |-> checked.supervisions])
                                           @@ manifests

Assemble ==
    /\ pc = "files"
    /\ IF corpus = "levant" THEN AssembleLevant ELSE AssembleSplit
    /\ UNCHANGED <<cleanVars, params, document, opened, path,
                   idx, lines_read, files_opened>>

Next == StartSplit \/ OpenFile \/ ReadLine \/ CloseFile \/ Assemble

Spec == Init /\ [][Next]_vars

\* ------------------------------------------------------------------------
\* The segments of the Gulf, Iraqi and Levantine recipes
\* ------------------------------------------------------------------------

\* C2: every segment appended to the supervision list has a duration
\* greater than 0 and a text that is not empty, a line giving a segment
\* only when both hold.
C2_PositiveDurationAndText ==
    \A i \in 1..Len(supervisions) :
        /\ ~supervisions[i].duration.nan
        /\ supervisions[i].duration.coef > 0
        /\ supervisions[i].text # <<>>

\* C3: the ids of the segments built for one SupervisionSet are pairwise
\* distinct, whatever the transcript files and their lines.
C3_DistinctIds ==
    pc \in {"files", "lines"} =>
        \A i, j \in 1..Len(supervisions) :
            i # j => supervisions[i].id # supervisions[j].id

\* C4: in the Gulf and Iraqi recipes a line that is blank, or has not four
\* fields, or has not two timestamps, or has a speaker tag that is not one
\* letter, is skipped: no segment, no error, and the next line is read.
C4_MalformedSkipped ==
    (pc = "lines" /\ corpus \in {"gulf", "iraqi"}) =>
        \A l \in {Tab.Blank, Tab.TwoFields, Tab.FiveFields, Tab.OneTime,
                  Tab.TwoLetters} :
            ParseLine(corpus, Split, text_cleaning, path.stem, idx, l) = Skip

C7_Channel ==
    pc \in {"files", "lines"} =>
        \A i \in 1..Len(supervisions) :
            LET seg == supervisions[i]
                tag == seg.speaker[Len(seg.speaker)]
            IN  IF corpus \in {"gulf", "iraqi"} /\ Split = "train1c"
                THEN seg.channel = 0
                ELSE \A k \in 1..26 : tag = UpperLetters[k] => seg.channel = k - 1

\* Speaker B has channel 0 in the split train1c, after having had channel 1
\* in the split devtest.
C7_Witness ==
    /\ pc = "lines"
    /\ Split = "train1c"
    /\ \E i \in 1..Len(supervisions) :
           /\ supervisions[i].speaker[Len(supervisions[i].speaker)] = "B"
           /\ supervisions[i].channel = 0
    /\ "devtest" \in DOMAIN manifests
    /\ \E i \in 1..Len(manifests["devtest"].supervisions) :
           /\ manifests["devtest"].supervisions[i].speaker[11] = "B"
           /\ manifests["devtest"].supervisions[i].channel = 1

\* C8: the duration of a segment is the exact decimal difference of its
\* two timestamps: 2.1399 for 3.2701 and 5.4100, and 1.06 for 7.29 and 8.35
\* (the other end that goes with 7.29 is not a number).
C8_ExactDuration ==
    \A i \in 1..Len(supervisions) :
        LET seg == supervisions[i]
        IN  /\ seg.start = Finite(32701, 4) => seg.duration = Finite(21399, 4)
            /\ seg.start = Finite(729, 2) =>
                   seg.duration \in {Finite(106, 2), NaN}

\* A segment of the Levantine recipe from 3.2701 to 5.4100.
C8_Witness ==
    /\ corpus = "levant"
    /\ \E i \in 1..Len(supervisions) :
           /\ supervisions[i].start = Finite(32701, 4)
           /\ supervisions[i].duration = Finite(21399, 4)

\* ------------------------------------------------------------------------
\* The course of a call of the Gulf, Iraqi and Levantine recipes
\* ------------------------------------------------------------------------

\* C11: in the Gulf and Iraqi recipes a call that fails for a missing
\* directory of a split fails before a transcript line of any split has
\* been parsed and before a manifest file has been written.
C11_MissingDirectoryFirst ==
    [][(corpus \in {"gulf", "iraqi"} /\ pc = "split" /\ pc' = "raised")
          => (lines_read = 0 /\ written = NoFiles)]_vars

\* C12: when output_dir is None, a call of the Levantine recipe whose
\* manifests are valid, on the whole release, writes no file and returns
\* the manifests without raising.
C12_LevantWithoutOutputDir ==
    [][(/\ corpus = "levant"
        /\ output_dir = "None"
        /\ pc = "files"
        /\ pc' \notin {"files", "lines"}
        /\ recordings.more = ReleaseMore
        /\ ~HasDuplicateIds(supervisions)
        /\ IsValid(recordings, fix_manifests(recordings, supervisions).supervisions))
          => (/\ pc' = "done"
              /\ written' = NoFiles
              /\ "train" \in DOMAIN manifests')]_vars

\* C13: the entry "train" of the mapping the Levantine recipe returns holds
\* only recordings and supervisions whose recording id matches neither the
\* dev pattern nor the test pattern.
C13_TrainEntryIsTrainSubset ==
    (corpus = "levant" /\ "train" \in DOMAIN manifests) =>
        /\ \A r \in manifests["train"].recordings.recs :
               ~re_match(dev_re, r.id) /\ ~re_match(test_re, r.id)
        /\ \A i \in 1..Len(manifests["train"].supervisions) :
               LET id == manifests["train"].supervisions[i].recording_id
               IN  ~re_match(dev_re, id) /\ ~re_match(test_re, id)

\* C14 as it was stated: the speaker of every segment is the recording id,
\* an underscore and the one letter of the speaker.
C14_SpeakerLetter ==
    \A i \in 1..Len(supervisions) :
        \E letter \in AsciiUpper :
            supervisions[i].speaker =
                supervisions[i].recording_id \o <<"_", letter>>

\* C14: the speaker of every segment is the recording id, an underscore
\* and the speaker tag filled with "0" on the left to two characters: a
\* tag of one letter gives "0" and the letter.
C14_SpeakerPadded ==
    \A i \in 1..Len(supervisions) :
        LET speaker == supervisions[i].speaker
            n == Len(supervisions[i].recording_id)
        IN  /\ Len(speaker) = n + 3
            /\ SubSeq(speaker, 1, n) = supervisions[i].recording_id
            /\ speaker[n + 1] = "_"
            /\ speaker[n + 2] \in AsciiUpper \cup {"0"}
            /\ speaker[n + 3] \in AsciiUpper

\* A segment of speaker B has been emitted.
C14_Witness ==
    \E i \in 1..Len(supervisions) :
        /\ supervisions[i].recording_id = fla_0012
        /\ supervisions[i].speaker = fla_0012 \o <<"_", "0", "B">>

\* C18: the index of the segment ids is local to the transcript file. It
\* is 0 when a file is opened; a line that gives a segment advances it by
\* 1 and a line that gives none leaves it; the segments of the file that
\* is read, the last idx of the list, carry the indices 0..idx-1 in the
\* order of the lines.
C18_LocalIndex ==
    [][LET Index(k) == <<"_", "0", "0", "0", "0", WesternDigits[k + 1]>>
           Suffix(id) == SubSeq(id, Len(id) - 5, Len(id))
           emitted == Len(supervisions') - Len(supervisions)
       IN  /\ (pc = "files" /\ pc' = "lines") => idx' = 0
           /\ (pc = "lines" /\ lines_read' = lines_read + 1) =>
                  /\ emitted \in {0, 1}
                  /\ idx' = idx + emitted
           /\ pc' = "lines" =>
                  /\ idx' <= Len(supervisions')
                  /\ \A k \in 0..(idx' - 1) :
                         LET segment ==
                                 supervisions'[Len(supervisions') - idx' + 1 + k]
                         IN  /\ Suffix(segment.id) = Index(k)
                             /\ segment.recording_id =
                                    RecordingId(corpus, path'.stem)]_vars

\* The second file of a split gives its first segment after the first file
\* gave one.
C18_Witness ==
    /\ pc = "lines"
    /\ Cardinality(opened) = 2
    /\ idx = 1
    /\ Len(supervisions) = 2

\* ------------------------------------------------------------------------
\* lev_split applied to an assembled corpus
\* ------------------------------------------------------------------------

\* The most segments of the assembled corpus.
MaxSegments == 2

fla_0080 == <<"f", "l", "a", "_", "0", "0", "8", "0">>

\* The ids of the recordings of the assembled corpus: of the development
\* subset, of the test subset, and three of neither.
AssembledIds == {fla_0012, fla_0112, fla_0212, fla_0080, FLA_0112}

InitSplit ==
    /\ CleanIdle
    /\ corpus = "levant"
    /\ text_cleaning = TRUE
    /\ output_dir = "out"
    /\ audio = {}
    /\ mer_thresh = None
    /\ pc = "lev_split"
    /\ split_no = 1
    /\ \E ids \in SUBSET AssembledIds, whole \in BOOLEAN :
          LET more == IF whole THEN RestOfRelease(ids) ELSE NoMore IN
          /\ recordings = RecordingSetOf({[id |-> r, num_channels |-> 2] : r \in ids},
                                         more)
          /\ supervisions \in
                 {[i \in 1..Len(f) |->
                      SupervisionSegment(f[i], <<"A">>, i - 1, Finite(i, 0),
                                         Finite(1, 0), <<"u0623">>, 0)] :
                    f \in UNION {[1..n -> ids] : n \in 0..MaxSegments}}
    /\ opened = {}
    /\ path = NoPath
    /\ idx = 0
    /\ subsets = NoSubsets
    /\ manifests = <<>>
    /\ written = NoFiles
    /\ error = "none"
    /\ lines_read = 0
    /\ files_opened = 0
    /\ document = <<>>

\* lev_split(supervisions, recordings, output_dir)
LevSplit ==
    /\ pc = "lev_split"
    /\ LET parts == lev_split(supervisions, recordings)
       IN  /\ subsets' = parts.subsets
           /\ written' = parts.files @@ written
           /\ error' = parts.error
           /\ pc' = IF parts.error = "none" THEN "done" ELSE "raised"
    /\ UNCHANGED <<cleanVars, params, document, split_no, recordings, opened, path, idx,
                   supervisions, manifests, lines_read, files_opened>>

SpecSplit == InitSplit /\ [][LevSplit]_vars

\* C6: lev_split puts every recording and every supervision in exactly one
\* of dev, test and train: in dev when its recording id matches the dev
\* pattern, else in test when it matches the test pattern, else in train;
\* no id is in two subsets, and the lengths of the three add up to the
\* length of the whole, for the recordings and for the supervisions.
C6_Partition ==
    pc # "lev_split" =>
        LET Ids(segments) == {segments[i].id : i \in 1..Len(segments)}
            rec_dev == {r.id : r \in subsets.rec_lev_dev.recs}
            rec_test == {r.id : r \in subsets.rec_lev_test.recs}
            rec_train == {r.id : r \in subsets.rec_lev_train.recs}
            sup_dev == Ids(subsets.sup_lev_dev)
            sup_test == Ids(subsets.sup_lev_test)
            sup_train == Ids(subsets.sup_lev_train)
        IN  /\ \A r \in recordings.recs :
                   /\ r.id \in rec_dev <=> IsDev(r.id)
                   /\ r.id \in rec_test <=> (~IsDev(r.id) /\ IsTest(r.id))
                   /\ r.id \in rec_train <=> (~IsDev(r.id) /\ ~IsTest(r.id))
            /\ \A i \in 1..Len(supervisions) :
                   LET seg == supervisions[i]
                   IN  /\ seg.id \in sup_dev <=> IsDev(seg.recording_id)
                       /\ seg.id \in sup_test <=>
                              (~IsDev(seg.recording_id) /\ IsTest(seg.recording_id))
                       /\ seg.id \in sup_train <=>
                              (~IsDev(seg.recording_id) /\ ~IsTest(seg.recording_id))
            /\ rec_dev \cap rec_test = {}
            /\ rec_dev \cap rec_train = {}
            /\ rec_test \cap rec_train = {}
            /\ sup_dev \cap sup_test = {}
            /\ sup_dev \cap sup_train = {}
            /\ sup_test \cap sup_train = {}
            /\ RecLen(subsets.rec_lev_train) + RecLen(subsets.rec_lev_dev)
                   + RecLen(subsets.rec_lev_test) = RecLen(recordings)
            /\ Len(subsets.sup_lev_train) + Len(subsets.sup_lev_dev)
                   + Len(subsets.sup_lev_test) = Len(supervisions)

\* lev_split has returned, with a recording in each of the three subsets
\* and a supervision in two of them.
C6_Witness ==
    /\ pc = "done"
    /\ subsets.rec_lev_dev.recs # {}
    /\ subsets.rec_lev_test.recs # {}
    /\ Cardinality(subsets.rec_lev_train.recs) > 1
    /\ Len(subsets.sup_lev_dev) = 1
    /\ Len(subsets.sup_lev_train) = 1

\* C19: lev_split completes for any assembled set, whatever the number of
\* recordings in each subset, and writes the files of its three subsets.
C19_AnyCounts ==
    pc # "lev_split" =>
        /\ pc = "done"
        /\ \A kind \in {"recordings", "supervisions"},
              subset \in {"train", "dev", "test"} :
               <<"lev", kind, subset>> \in DOMAIN written

\* ------------------------------------------------------------------------
\* prepare_qasr
\* ------------------------------------------------------------------------

\* mer_thresh: int = 80
DefaultThreshold == 80

\* for part in dataset_parts
Part == dataset_parts[split_no]

\* The XML documents a file of the train part may hold, of at most n
\* segment elements.
Documents(n) == UNION {[1..k -> XmlSegments] : k \in 0..n}

InitQasr ==
    /\ CleanIdle
    /\ corpus = "qasr"
    /\ text_cleaning \in BOOLEAN
    /\ output_dir \in {"out", "None"}
    /\ audio = QasrAudio
    /\ mer_thresh \in {None, <<DefaultThreshold>>, <<50>>}
    /\ pc = "call"
    /\ split_no = 1
    /\ recordings = EmptyRecordingSet
    /\ opened = {}
    /\ path = NoPath
    /\ idx = 0
    /\ supervisions = <<>>
    /\ subsets = NoSubsets
    /\ manifests = <<>>
    /\ written \in IF output_dir = "None" THEN {NoFiles} ELSE {NoFiles, EarlierFiles}
    /\ error = "none"
    /\ lines_read = 0
    /\ files_opened = 0
    /\ document = <<>>

\* assert corpus_dir.is_dir(), and the manifests that are cached
StartCall ==
    /\ pc = "call"
    /\ \E is_dir \in BOOLEAN :
          IF is_dir
          THEN /\ pc' = "part"
               /\ error' = error
               /\ manifests' = read_manifests_if_cached(output_dir, written)
          ELSE /\ pc' = "raised"
               /\ error' = "AssertionError"
               /\ manifests' = manifests
    /\ UNCHANGED <<cleanVars, params, document, split_no, recordings, opened,
                   path, idx, supervisions, subsets, written, lines_read,
                   files_opened>>

\* The head of the loop over the parts: a part whose files exist is
\* passed over; output_dir = Path(output_dir) raises when it is None; the
\* recordings of the wav directory are read, and for the train part
\* check_and_rglob must find the XML files.
StartPart ==
    /\ pc = "part"
    /\ IF manifests_exist(Part, output_dir, written)
       THEN /\ IF split_no < Len(dataset_parts)
               THEN pc' = "part" /\ split_no' = split_no + 1
               ELSE pc' = "done" /\ split_no' = split_no
            /\ UNCHANGED <<recordings, supervisions, error>>
       ELSE /\ split_no' = split_no
            /\ IF output_dir = "None"
               THEN /\ pc' = "raised"
                    /\ error' = "TypeError"
                    /\ UNCHANGED <<recordings, supervisions>>
               ELSE /\ recordings' = RecordingSetOf(audio, NoMore)
                    /\ supervisions' = <<>>
                    /\ IF Part \in {"test", "dev"}
                       THEN pc' = "lines" /\ error' = error
                       ELSE \E found \in BOOLEAN :
                               IF found
                               THEN pc' = "xml" /\ error' = error
                               ELSE pc' = "raised" /\ error' = "AssertionError"
    /\ UNCHANGED <<cleanVars, params, document, opened, path, idx, subsets,
                   manifests, written, lines_read, files_opened>>

\* read_text: one turn of "for line in lines"
ReadText ==
    /\ pc = "lines"
    /\ corpus = "qasr"
    /\ lines_read < MaxLines
    /\ \E l \in QasrLines :
          LET out == ReadTextLine(l)
          IN  IF out.kind = "raise"
              THEN /\ pc' = "raised"
                   /\ error' = out.error
                   /\ supervisions' = supervisions
              ELSE /\ pc' = pc
                   /\ error' = error
                   /\ supervisions' = Append(supervisions, out.segment)
    /\ lines_read' = lines_read + 1
    /\ UNCHANGED <<cleanVars, params, document, split_no, recordings, opened,
                   path, idx, subsets, manifests, written, files_opened>>

\* [make_supervisions(p, mer_thresh) for p in xml_paths]: one file
ReadXml ==
    /\ pc = "xml"
    /\ files_opened < MaxFiles
    /\ \E doc \in Documents(MaxLines - lines_read) :
          LET out == make_supervisions(doc, mer_thresh)
          IN  /\ document' = doc
              /\ lines_read' = lines_read + Len(doc)
              /\ IF out.kind = "raise"
                 THEN /\ pc' = "raised"
                      /\ error' = out.error
                      /\ supervisions' = supervisions
                 ELSE /\ pc' = pc
                      /\ error' = error
                      /\ supervisions' = supervisions \o out.segments
    /\ files_opened' = files_opened + 1
    /\ UNCHANGED <<cleanVars, params, split_no, recordings, opened, path, idx,
                   subsets, manifests, written>>

\* The rest of the turn for a part: check_and_rglob of the XML directory
\* for the test and dev parts, SupervisionSet.from_segments, the filter
\* on the duration, the asserted count, transform_text, fix_manifests,
\* validate, to_file, manifests[part], and the next part.
AssemblePart ==
    /\ pc \in {"lines", "xml"}
    /\ corpus = "qasr"
    /\ \E found \in IF pc = "lines" THEN BOOLEAN ELSE {TRUE} :
       LET kept == SelectSeq(supervisions, PositiveDuration) IN
       \E rest \in {0, ExpectedSupervisions(Part) - Len(kept)} :
          LET cleaned == IF text_cleaning THEN transform_text(kept) ELSE kept
              checked == FixAndValidate(recordings, cleaned)
              sups == QasrSupervisions(checked.supervisions, rest)
          IN  IF \/ ~found
                 \/ HasDuplicateIds(supervisions)
                 \/ Len(kept) + rest # ExpectedSupervisions(Part)
                 \/ ~checked.ok
              THEN /\ pc' = "raised"
                   /\ error' = "AssertionError"
                   /\ UNCHANGED <<recordings, supervisions, written,
                                  manifests, split_no>>
              ELSE /\ recordings' = checked.recordings
                   /\ supervisions' = checked.supervisions
                   /\ written' = PartFiles(Part, checked.recordings, sups)
                                     @@ written
                   /\ manifests' = (Part :> [recordings |-> checked.recordings,
                                             supervisions |-> sups])
                                       @@ manifests
                   /\ error' = error
                   /\ IF split_no < Len(dataset_parts)
                      THEN pc' = "part" /\ split_no' = split_no + 1
                      ELSE pc' = "done" /\ split_no' = split_no
    /\ UNCHANGED <<cleanVars, params, document, opened, path, idx, subsets,
                   lines_read, files_opened>>

NextQasr == StartCall \/ StartPart \/ ReadText \/ ReadXml \/ AssemblePart

SpecQasr == InitQasr /\ [][NextQasr]_vars

\* ------------------------------------------------------------------------
\* The supervisions of prepare_qasr
\* ------------------------------------------------------------------------

\* C9: make_supervisions gives, from the segment elements of a document,
\* the segments of those elements that mer_thresh retains, in the order
\* of the document: every element when mer_thresh is None, otherwise the
\* elements whose WMER is at most mer_thresh, none with a WMER above it.
C9_RetainedByThreshold ==
    [][(pc = "xml" /\ pc' = "xml" /\ files_opened' = files_opened + 1) =>
          LET Tenths(segment) ==
                  CASE segment = Xml.Low -> 125
                    [] segment = Xml.Edge -> 800
                    [] segment = Xml.High -> 805
              Kept(segment) ==
                  mer_thresh = None \/ Tenths(segment) <= 10 * mer_thresh[1]
              kept == SelectSeq(document', Kept)
          IN  supervisions' =
                  supervisions \o [i \in 1..Len(kept) |-> XmlSupervision(kept[i])]]_vars

\* A document of an element over the default threshold and one at it has
\* been read with that threshold, and only the second gave a segment.
C9_Witness ==
    /\ pc = "xml"
    /\ mer_thresh = <<DefaultThreshold>>
    /\ document = <<Xml.High, Xml.Edge>>
    /\ supervisions = <<XmlSupervision(Xml.Edge)>>

\* C10: prepare_qasr, called with text_cleaning, emits no segment with an
\* empty text: a supervision whose text is empty once cleaned is in no
\* SupervisionSet the call writes or returns.
C10_NoEmptyText ==
    (corpus = "qasr" /\ text_cleaning) =>
        /\ \A part \in DOMAIN manifests :
               \A i \in 1..Len(manifests[part].supervisions.segments) :
                   manifests[part].supervisions.segments[i].text # <<>>
        /\ \A part \in {dataset_parts[k] : k \in 1..Len(dataset_parts)} :
               <<"qasr", "supervisions", part>> \in DOMAIN written =>
                   \A i \in 1..Len(written[<<"qasr", "supervisions", part>>].segments) :
                       written[<<"qasr", "supervisions", part>>].segments[i].text # <<>>

\* C15: every segment id ends with its sequence component filled with
\* zeros to a fixed width: the index of five digits in the Gulf, Iraqi and
\* Levantine ids, the start and the end in centiseconds of seven digits
\* each in the QASR ids, those of read_text and those of make_supervisions.
C15_PaddedSequence ==
    \A i \in 1..Len(supervisions) :
        LET id == supervisions[i].id
            n == Len(id)
            Digits(a, b) == \A k \in a..b : id[k] \in AsciiDigits
        IN  IF corpus = "qasr"
            THEN /\ n >= 16
                 /\ id[n - 15] = "_" /\ Digits(n - 14, n - 8)
                 /\ id[n - 7] = "_" /\ Digits(n - 6, n)
            ELSE /\ n >= 6
                 /\ id[n - 5] = "_" /\ Digits(n - 4, n)

\* C16: read_text skips a malformed line without raising: reading a line
\* never ends the call, whatever the line.
C16_ReadTextGoesOn ==
    [][(corpus = "qasr" /\ pc = "lines" /\ lines_read' = lines_read + 1)
          => (pc' = "lines" /\ error' = "none")]_vars

\* ------------------------------------------------------------------------
\* The four prepare functions
\* ------------------------------------------------------------------------

InitPrepare == Init \/ InitQasr

NextPrepare == Next \/ NextQasr

SpecPrepare == InitPrepare /\ [][NextPrepare]_vars

MaxPieces == 3

\* The most times cleaning() is applied to a text.
MaxPasses == 2

\* What the input texts are made of: characters of every class the passes
\* tell apart, and annotation words of the lists.
Pieces == {
    <<"(">>, <<")">>, <<"%">>, <<"\\">>, <<" ">>, <<"\t">>, <<".">>, <<"_">>,
    <<"A">>, <<"b">>, <<"1">>, <<"u0663">>, <<"u066A">>, <<"u0636">>, <<"u0651">>,
    <<"u06A4">>, <<"u00E9">>,
    <<"(", "u0636", "u062C", "u0629", ")">>,
    <<"%", "u0645", "u0647", "u0645">>,
    <<"(", "F", "O", "R", ")">> }

RECURSIVE Flatten(_)
Flatten(seqs) == IF seqs = <<>> THEN <<>> ELSE Head(seqs) \o Flatten(Tail(seqs))

Texts == {Flatten(f) : f \in UNION {[1..n -> Pieces] : n \in 0..MaxPieces}}

InitClean ==
    /\ PrepareIdle
    /\ pipeline \in Corpora
    /\ text \in Texts
    /\ before = text
    /\ passes = 0

Clean ==
    /\ passes < MaxPasses
    /\ before' = text
    /\ text' = cleaning(pipeline, text)
    /\ passes' = passes + 1
    /\ UNCHANGED <<pipeline, prepareVars>>

SpecClean == InitClean /\ [][Clean]_vars

\* C1: cleaning is idempotent in each of the four recipes: cleaning a text
\* that cleaning() returned gives the same text back.
C1_Idempotent == passes >= 2 => text = before

\* A cleaned text that is not empty has been cleaned a second time.
C1_Witness ==
    /\ passes = 2
    /\ before # <<>>
    /\ Contains(before, <<"u0636">>)
    /\ pipeline = "iraqi"

====
